---- MODULE Spec2Model ----
(***************************************************************************)
(* Model of the aud saga engine (src/src/lib.rs): a Saga owns an ordered   *)
(* Vec of Adventures, each a (forward, backward) pair of function          *)
(* pointers over one accumulator.  Saga::tell drives tell_ forward through *)
(* the adventures and, on the first forward Failure, revert backward from  *)
(* the failing index down to 0.  One step of the model is one call of the  *)
(* recursive functions tell_ / revert.  The code indexes the Vec from 0;   *)
(* the model keeps the 0-based index i and reads adventures[i + 1].        *)
(***************************************************************************)
EXTENDS Integers, Sequences, FiniteSets

VARIABLES adventures, pc, i, acc, error, result, initial, calls, prev

vars == <<adventures, pc, i, acc, error, result, initial, calls, prev>>

(* ---- bounds ---- *)
MaxLen == 3
MaxInput == 2

(* ---- program constants ---- *)
Inc2Limit == 2

(* ---- the caller's function pointers ---- *)
\* forward: "inc" is the doc example's inc2 (always Ok(i + 1)), "inc2" the
\* tests' inc2, "nonneg" a forward that leaves the accumulator alone and
\* fails on a negative one.  backward: "dec" is the tests' dec, "dbl" and
\* "keep" are further total functions a caller may bind.
ForwardFns == {"inc", "inc2", "nonneg"}
BackwardFns == {"dec", "dbl", "keep"}

NoError == [name |-> "none", stupid |-> FALSE]
StupidError == [name |-> "StupidError", stupid |-> TRUE]
NegativeError == [name |-> "NegativeError", stupid |-> FALSE]

\* Result<T, Failure<T>>: ok = TRUE is Ok(acc), ok = FALSE is
\* Err(Failure { error, acc }).
Ok(a) == [ok |-> TRUE, acc |-> a, error |-> NoError]
Failure(e, a) == [ok |-> FALSE, acc |-> a, error |-> e]
NoResult == [ok |-> FALSE, acc |-> 0, error |-> NoError]

inc(a) == Ok(a + 1)

inc2_gt(a) == IF a > Inc2Limit THEN Failure(StupidError, a + 1) ELSE Ok(a + 1)
inc2(a) == IF a >= Inc2Limit THEN Failure(StupidError, a + 1) ELSE Ok(a + 1)

nonneg(a) == IF a < 0 THEN Failure(NegativeError, a) ELSE Ok(a)

dec(a) == a - 1

\* Adventure::forward: call the bound forward pointer.
forward(adv, a) ==
    CASE adv.forward = "inc" -> inc(a)
      [] adv.forward = "inc2" -> inc2(a)
      [] adv.forward = "nonneg" -> nonneg(a)

\* Adventure::backward: call the bound backward pointer.
backward(adv, a) ==
    CASE adv.backward = "dec" -> dec(a)
      [] adv.backward = "dbl" -> a * 2
      [] adv.backward = "keep" -> a

Adventure == [forward : ForwardFns, backward : BackwardFns]

Inputs == (0 - MaxInput)..MaxInput

Sagas == UNION {[1..n -> Adventure] : n \in 0..MaxLen}

\* saga.len() and saga[i] (a panic when i is out of bounds)
len == Len(adventures)
InBounds(k) == k >= 0 /\ k < len

\* tell_: if i >= saga.len()
tellFinished_early(k) == k + 1 >= len
tellFinished_strict(k) == k > len
tellFinished(k) == k >= len

\* revert: if i == 0
revertFinished_early(k) == k <= 1
revertFinished_one(k) == k = 1
revertFinished(k) == k = 0

\* tell_, Err arm: the index handed to revert(saga, error, i, acc1)
revertEntry_prior(k) == k - 1
revertEntry(k) == k

\* tell_, Ok arm: the index handed to tell_(saga, i + 1, acc1)
tellNext_skip(k) == k + 2
tellNext(k) == k + 1

\* one recorded invocation of a step operation
Call(op, k, a, r) == [op |-> op, idx |-> k, arg |-> a, ret |-> r]

\* a tell that has returned, as its caller saw it: the accumulator it was
\* given, what it returned and the step operations it invoked
Run(x, r, c) == [valid |-> TRUE, input |-> x, result |-> r, calls |-> c]
NoRun == [valid |-> FALSE, input |-> 0, result |-> NoResult, calls |-> <<>>]

Init ==
    /\ adventures \in Sagas
    /\ pc = "idle"
    /\ i = 0
    /\ acc = 0
    /\ error = NoError
    /\ result = NoResult
    /\ initial = 0
    /\ calls = <<>>
    /\ prev = NoRun

\* Saga::tell(acc): tell_(&self.adventures, 0, acc)
tell(x) ==
    /\ pc = "idle"
    /\ pc' = "tell_"
    /\ i' = 0
    /\ acc' = x
    /\ initial' = x
    /\ UNCHANGED <<adventures, error, result, calls, prev>>

tell__noRevert ==
    /\ pc = "tell_"
    /\ IF tellFinished(i)
       THEN /\ result' = Ok(acc)
            /\ pc' = "done"
            /\ UNCHANGED <<i, acc, error, calls>>
       ELSE IF ~InBounds(i)
       THEN /\ pc' = "panic"
            /\ UNCHANGED <<i, acc, error, result, calls>>
       ELSE LET r == forward(adventures[i + 1], acc) IN
            /\ calls' = Append(calls, Call("forward", i, acc, r))
            /\ IF r.ok
               THEN /\ pc' = "tell_"
                    /\ i' = tellNext(i)
                    /\ acc' = r.acc
                    /\ UNCHANGED <<error, result>>
               ELSE /\ pc' = "done"
                    /\ result' = Failure(r.error, r.acc)
                    /\ UNCHANGED <<i, acc, error>>
    /\ UNCHANGED <<adventures, initial, prev>>

tell__staleAcc ==
    /\ pc = "tell_"
    /\ IF tellFinished(i)
       THEN /\ result' = Ok(acc)
            /\ pc' = "done"
            /\ UNCHANGED <<i, acc, error, calls>>
       ELSE IF ~InBounds(i)
       THEN /\ pc' = "panic"
            /\ UNCHANGED <<i, acc, error, result, calls>>
       ELSE LET r == forward(adventures[i + 1], acc) IN
            /\ calls' = Append(calls, Call("forward", i, acc, r))
            /\ IF r.ok
               THEN /\ pc' = "tell_"
                    /\ i' = tellNext(i)
                    /\ acc' = r.acc
                    /\ UNCHANGED <<error, result>>
               ELSE /\ pc' = "revert"
                    /\ i' = revertEntry(i)
                    /\ acc' = acc
                    /\ error' = r.error
                    /\ UNCHANGED result
    /\ UNCHANGED <<adventures, initial, prev>>

tell__retryOnce ==
    /\ pc = "tell_"
    /\ IF tellFinished(i)
       THEN /\ result' = Ok(acc)
            /\ pc' = "done"
            /\ UNCHANGED <<i, acc, error, calls>>
       ELSE IF ~InBounds(i)
       THEN /\ pc' = "panic"
            /\ UNCHANGED <<i, acc, error, result, calls>>
       ELSE LET r == forward(adventures[i + 1], acc) IN
            /\ calls' = Append(calls, Call("forward", i, acc, r))
            /\ IF r.ok
               THEN /\ pc' = "tell_"
                    /\ i' = tellNext(i)
                    /\ acc' = r.acc
                    /\ UNCHANGED <<error, result>>
               ELSE IF calls = <<>> \/ calls[Len(calls)].ret.ok
               THEN /\ pc' = "tell_"
                    /\ UNCHANGED <<i, acc, error, result>>
               ELSE /\ pc' = "revert"
                    /\ i' = revertEntry(i)
                    /\ acc' = r.acc
                    /\ error' = r.error
                    /\ UNCHANGED result
    /\ UNCHANGED <<adventures, initial, prev>>

\* one call of tell_(saga, i, acc)
tell_ ==
    /\ pc = "tell_"
    /\ IF tellFinished(i)
       THEN /\ result' = Ok(acc)
            /\ pc' = "done"
            /\ UNCHANGED <<i, acc, error, calls>>
       ELSE IF ~InBounds(i)
       THEN /\ pc' = "panic"
            /\ UNCHANGED <<i, acc, error, result, calls>>
       ELSE LET r == forward(adventures[i + 1], acc) IN
            /\ calls' = Append(calls, Call("forward", i, acc, r))
            /\ IF r.ok
               THEN /\ pc' = "tell_"
                    /\ i' = tellNext(i)
                    /\ acc' = r.acc
                    /\ UNCHANGED <<error, result>>
               ELSE /\ pc' = "revert"
                    /\ i' = revertEntry(i)
                    /\ acc' = r.acc
                    /\ error' = r.error
                    /\ UNCHANGED result
    /\ UNCHANGED <<adventures, initial, prev>>

revert_staleAcc ==
    /\ pc = "revert"
    /\ IF ~InBounds(i)
       THEN /\ pc' = "panic"
            /\ UNCHANGED <<i, acc, error, result, calls>>
       ELSE LET acc1 == backward(adventures[i + 1], acc) IN
            /\ calls' = Append(calls, Call("backward", i, acc, Ok(acc1)))
            /\ IF revertFinished(i)
               THEN /\ result' = Failure(error, acc1)
                    /\ pc' = "done"
                    /\ UNCHANGED <<i, acc, error>>
               ELSE /\ pc' = "revert"
                    /\ i' = i - 1
                    /\ acc' = acc
                    /\ UNCHANGED <<error, result>>
    /\ UNCHANGED <<adventures, initial, prev>>

revert_consume ==
    /\ pc = "revert"
    /\ IF ~InBounds(i)
       THEN /\ pc' = "panic"
            /\ UNCHANGED <<i, acc, error, result, calls, adventures>>
       ELSE LET acc1 == backward(adventures[i + 1], acc) IN
            /\ calls' = Append(calls, Call("backward", i, acc, Ok(acc1)))
            /\ IF revertFinished(i)
               THEN /\ result' = Failure(error, acc1)
                    /\ pc' = "done"
                    /\ adventures' = SubSeq(adventures, 1, len - 1)
                    /\ UNCHANGED <<i, acc, error>>
               ELSE /\ pc' = "revert"
                    /\ i' = i - 1
                    /\ acc' = acc1
                    /\ UNCHANGED <<error, result, adventures>>
    /\ UNCHANGED <<initial, prev>>

revert_wrapError ==
    /\ pc = "revert"
    /\ IF ~InBounds(i)
       THEN /\ pc' = "panic"
            /\ UNCHANGED <<i, acc, error, result, calls>>
       ELSE LET acc1 == backward(adventures[i + 1], acc) IN
            /\ calls' = Append(calls, Call("backward", i, acc, Ok(acc1)))
            /\ IF revertFinished(i)
               THEN /\ result' = Failure(NoError, acc1)
                    /\ pc' = "done"
                    /\ UNCHANGED <<i, acc, error>>
               ELSE /\ pc' = "revert"
                    /\ i' = i - 1
                    /\ acc' = acc1
                    /\ UNCHANGED <<error, result>>
    /\ UNCHANGED <<adventures, initial, prev>>

\* one call of revert(saga, error, i, acc)
revert ==
    /\ pc = "revert"
    /\ IF ~InBounds(i)
       THEN /\ pc' = "panic"
            /\ UNCHANGED <<i, acc, error, result, calls>>
       ELSE LET acc1 == backward(adventures[i + 1], acc) IN
            /\ calls' = Append(calls, Call("backward", i, acc, Ok(acc1)))
            /\ IF revertFinished(i)
               THEN /\ result' = Failure(error, acc1)
                    /\ pc' = "done"
                    /\ UNCHANGED <<i, acc, error>>
               ELSE /\ pc' = "revert"
                    /\ i' = i - 1
                    /\ acc' = acc1
                    /\ UNCHANGED <<error, result>>
    /\ UNCHANGED <<adventures, initial, prev>>

Next ==
    \/ \E x \in Inputs : tell(x)
    \/ tell_
    \/ revert

Spec == Init /\ [][Next]_vars

\* Saga::tell(acc) on a saga that has been told before: tell borrows the
\* saga and returns, so its caller may tell it again.  The caller keeps the
\* run that just returned, or an earlier one it kept, to compare with.
tellAgain(x) ==
    /\ pc = "done"
    /\ \E keep \in BOOLEAN :
          prev' = IF keep /\ prev.valid THEN prev
                  ELSE Run(initial, result, calls)
    /\ pc' = "tell_"
    /\ i' = 0
    /\ acc' = x
    /\ initial' = x
    /\ error' = NoError
    /\ result' = NoResult
    /\ calls' = <<>>
    /\ UNCHANGED adventures

ReuseNext ==
    \/ Next
    \/ \E x \in Inputs : tellAgain(x)

ReuseSpec == Init /\ [][ReuseNext]_vars

\* tell_ and revert are plain synchronous calls: a call that has been made
\* runs, so a run that can take a step takes it
FairSpec == Spec /\ WF_vars(tell_) /\ WF_vars(revert)

(* ---- vocabulary of the properties ---- *)
FwdCalls == SelectSeq(calls, LAMBDA c : c.op = "forward")
BwdCalls == SelectSeq(calls, LAMBDA c : c.op = "backward")
Idx(s) == [p \in 1..Len(s) |-> s[p].idx]
\* <<0, 1, ..., k>> and <<k, k-1, ..., 0>>
Up(k) == [p \in 1..(k + 1) |-> p - 1]
Down(k) == [p \in 1..(k + 1) |-> k + 1 - p]
IsPrefix(s, t) == Len(s) <= Len(t) /\ s = SubSeq(t, 1, Len(s))
Succeeded == pc = "done" /\ result.ok
Failed == pc = "done" /\ ~result.ok
\* positions of calls at which a forward operation failed
FailPos == {p \in 1..Len(calls) : calls[p].op = "forward" /\ ~calls[p].ret.ok}

\* f_{k-1}(... f_1(f_0(x)) ...): the first k forwards, each fed the value
\* of the one before
RECURSIVE Threaded(_, _)
Threaded(k, x) ==
    IF k = 0 THEN x ELSE forward(adventures[k], Threaded(k - 1, x)).acc
\* step k (0-indexed) succeeds on the accumulator threaded to it
SucceedsAt(k, x) == forward(adventures[k + 1], Threaded(k, x)).ok
AllSucceed(x) == \A k \in 0..(len - 1) : SucceedsAt(k, x)

\* C1: when the forward of step k fails, the steps 0..k, and only they, have
\* their backward invoked, each once, in the order k, k-1, ..., 0; the
\* forwards invoked are those of 0..k and no step beyond k is touched.
C1_FullCompensation ==
    \A p \in FailPos :
        LET k == calls[p].idx
            before == SubSeq(calls, 1, p)
            after == SubSeq(calls, p + 1, Len(calls))
        IN  /\ \A q \in 1..p : calls[q].op = "forward"
            /\ Idx(before) = Up(k)
            /\ \A q \in (p + 1)..Len(calls) : calls[q].op = "backward"
            /\ IsPrefix(Idx(after), Down(k))
            /\ pc \in {"revert", "done"}
            /\ pc = "done" => Idx(after) = Down(k)
            /\ \A q \in 1..Len(calls) : calls[q].idx <= k

\* a three-step saga failed at its last step and was rolled back
C1_Witness ==
    /\ Failed
    /\ len = 3
    /\ Idx(FwdCalls) = <<0, 1, 2>>
    /\ Idx(BwdCalls) = <<2, 1, 0>>

\* C2: when every forward succeeds on the accumulator it receives, tell(x)
\* returns Ok of the forwards applied in index order, each success value
\* being the next input, and no backward is invoked; two (+1, -1) steps
\* started at 0 return Ok(2).
C2_IdentityOnSuccess ==
    /\ AllSucceed(initial) =>
          /\ BwdCalls = <<>>
          /\ pc # "revert"
          /\ \A p \in 1..Len(calls) :
                calls[p].arg = IF p = 1 THEN initial ELSE calls[p - 1].ret.acc
          /\ pc = "done" =>
                /\ result = Ok(Threaded(len, initial))
                /\ Idx(calls) = Up(len - 1)
    /\ ( /\ pc = "done"
         /\ len = 2
         /\ initial = 0
         /\ \A k \in 1..2 : /\ adventures[k].forward \in {"inc", "inc2"}
                             /\ adventures[k].backward = "dec" )
       => result = Ok(2)

\* the tests' good_sage: two (inc2, dec) steps told from 0 give Ok(2)
C2_Witness ==
    /\ Succeeded
    /\ adventures = << [forward |-> "inc2", backward |-> "dec"],
                       [forward |-> "inc2", backward |-> "dec"] >>
    /\ initial = 0
    /\ result = Ok(2)
    /\ Len(calls) = 2

\* the accumulators a told saga can thread through its steps
AccDom == (0 - MaxInput - MaxLen)..(MaxInput + MaxLen)
\* backward undoes forward: it maps the accumulator forward hands on, by
\* success or carried by its failure, back to the one forward received
InverseStep(adv) ==
    \A a \in AccDom : backward(adv, forward(adv, a).acc) = a
InverseSaga == \A k \in 1..len : InverseStep(adventures[k])

\* C3: when every step's backward is the exact inverse of its forward, a
\* failure at any step k, after the k steps before it succeeded, returns a
\* failure whose accumulator is the input of tell.
C3_RoundTrip ==
    (Failed /\ InverseSaga) => result.acc = initial

\* a saga of inverse steps with different forwards failed at a step after
\* at least one success
C3_Witness ==
    /\ Failed
    /\ InverseSaga
    /\ Len(FwdCalls) >= 2
    /\ \E k \in 1..len : adventures[k].forward # adventures[1].forward
    /\ result.acc = initial

\* the lowest index whose forward fails on the accumulator threaded to it
FirstFail(x) ==
    CHOOSE k \in 0..(len - 1) :
        /\ ~SucceedsAt(k, x)
        /\ \A j \in 0..(k - 1) : SucceedsAt(j, x)
\* what that forward returns
FirstFailure(x) ==
    forward(adventures[FirstFail(x) + 1], Threaded(FirstFail(x), x))

\* C4: the error of a returned failure is the error the failing forward
\* produced; revert carries it unchanged at every step and the backward
\* path raises no error of its own.
C4_ErrorTransparency ==
    /\ pc # "panic"
    /\ pc = "revert" =>
          /\ ~AllSucceed(initial)
          /\ error = FirstFailure(initial).error
          /\ error = calls[Len(FwdCalls)].ret.error
    /\ Failed =>
          /\ ~AllSucceed(initial)
          /\ result.error = FirstFailure(initial).error
          /\ result.error = calls[Len(FwdCalls)].ret.error
          /\ result.error # NoError

\* a failure was returned after at least two backward calls
C4_Witness ==
    /\ Failed
    /\ Len(BwdCalls) >= 2
    /\ result.error = NegativeError

\* C5: a saga with no step returns Ok(initial) for every initial value
\* and invokes no forward and no backward.
C5_EmptySequence ==
    len = 0 =>
        /\ calls = <<>>
        /\ pc \in {"idle", "tell_", "done"}
        /\ pc = "tell_" => (i = 0 /\ acc = initial)
        /\ pc = "done" => result = Ok(initial)

\* the empty saga was told a non-zero value and returned it
C5_Witness ==
    /\ len = 0
    /\ Succeeded
    /\ initial # 0
    /\ result = Ok(initial)

\* every step of the saga is the tests' (inc2, dec) pair
AllInc2Dec ==
    \A k \in 1..len :
        adventures[k] = [forward |-> "inc2", backward |-> "dec"]

\* C6: n (inc2, dec) steps told from 0 return Ok(n) when n <= 2 and a
\* failure with accumulator 0 when n >= 3; for n = 3 the calls are the
\* forwards of 0, 1, 2 (1, 2, failure carrying 3) and then the backwards
\* of 2, 1, 0 (2, 1, 0).
C6_TestScenario ==
    (AllInc2Dec /\ initial = 0 /\ pc = "done") =>
        /\ len <= 2 => result = Ok(len)
        /\ len >= 3 => (~result.ok /\ result.acc = 0)
        /\ len = 3 =>
              calls = << Call("forward", 0, 0, Ok(1)),
                         Call("forward", 1, 1, Ok(2)),
                         Call("forward", 2, 2, Failure(StupidError, 3)),
                         Call("backward", 2, 3, Ok(2)),
                         Call("backward", 1, 2, Ok(1)),
                         Call("backward", 0, 1, Ok(0)) >>

\* the tests' bad_sage: three (inc2, dec) steps told from 0
C6_Witness ==
    /\ AllInc2Dec
    /\ len = 3
    /\ initial = 0
    /\ Failed
    /\ result = Failure(StupidError, 0)

\* b_0(b_1(... b_k(a) ...)): the backwards of steps k down to 0, each fed
\* the value of the one before
RECURSIVE RolledBack(_, _)
RolledBack(k, a) ==
    IF k < 0 THEN a ELSE RolledBack(k - 1, backward(adventures[k + 1], a))

\* C7: when step k fails carrying a', the returned failure's accumulator is
\* b_0(b_1(... b_k(a') ...)); each backward call receives the output of the
\* backward call before it (the first receives a'), and a failure is never
\* returned before all k + 1 backwards were applied.
C7_RollbackValue ==
    \A p \in FailPos :
        LET k == calls[p].idx
            carried == calls[p].ret.acc
        IN  /\ \A q \in (p + 1)..Len(calls) :
                  calls[q].arg = IF q = p + 1 THEN carried
                                 ELSE calls[q - 1].ret.acc
            /\ Failed =>
                  /\ Len(BwdCalls) = k + 1
                  /\ result.acc = calls[Len(calls)].ret.acc
                  /\ result.acc = RolledBack(k, carried)

\* a failure at step 2 rolled back through backwards that do not commute
C7_Witness ==
    /\ Failed
    /\ Len(BwdCalls) = 3
    /\ adventures[1].backward = "dbl"
    /\ adventures[2].backward = "dec"
    /\ adventures[3].backward = "dbl"
    /\ result.acc = ((calls[3].ret.acc * 2) - 1) * 2
    /\ result.acc # calls[3].ret.acc

\* C8: tell returns Ok exactly when every forward succeeds on the
\* accumulator threaded to it and a failure exactly when some forward fails;
\* the failing step is then the lowest such index, and a forward failure is
\* always followed by compensation, never returned or swallowed without it.
C8_OkIffAllSucceed ==
    /\ pc = "done" => (result.ok <=> AllSucceed(initial))
    /\ Succeeded => (FailPos = {} /\ Len(FwdCalls) = len)
    /\ Failed =>
          /\ FailPos = {FirstFail(initial) + 1}
          /\ calls[FirstFail(initial) + 1].idx = FirstFail(initial)
          /\ Len(BwdCalls) = FirstFail(initial) + 1
    /\ FailPos # {} =>
          /\ pc \in {"revert", "done"}
          /\ pc = "done" => (~result.ok /\ BwdCalls # <<>>)

\* a saga whose second step is the first to fail returned its failure, the
\* third step being one that would have failed too
C8_Witness ==
    /\ Failed
    /\ len = 3
    /\ FirstFail(initial) = 1
    /\ ~forward(adventures[3], calls[2].arg).ok
    /\ Len(BwdCalls) = 2

\* C9: when the forward of step i fails carrying acc', revert is entered with
\* the same index i and with acc', and the first backward invoked is that of
\* step i applied to acc', not to the accumulator the forward received.
C9_CompensationEntry ==
    \A p \in FailPos :
        /\ p = Len(calls) =>
              /\ pc = "revert"
              /\ i = calls[p].idx
              /\ acc = calls[p].ret.acc
        /\ p < Len(calls) =>
              /\ calls[p + 1].op = "backward"
              /\ calls[p + 1].idx = calls[p].idx
              /\ calls[p + 1].arg = calls[p].ret.acc

\* the first backward after a failure at a step after step 0, the failure
\* carrying a value that differs from the forward's input
C9_Witness ==
    /\ Len(BwdCalls) = 1
    /\ calls[Len(calls) - 1].op = "forward"
    /\ calls[Len(calls) - 1].idx > 0
    /\ calls[Len(calls) - 1].ret.acc # calls[Len(calls) - 1].arg
    /\ calls[Len(calls)].arg = calls[Len(calls) - 1].ret.acc

\* the state of the summary machine a state of the run stands for: tell_
\* called with i is Forward(i), revert called with i is Compensating(i)
MState(c, k, r) ==
    CASE c = "tell_" -> [st |-> "Forward", i |-> k]
      [] c = "revert" -> [st |-> "Compensating", i |-> k]
      [] c = "done" /\ r.ok -> [st |-> "Succeeded", i |-> 0]
      [] c = "done" /\ ~r.ok -> [st |-> "Failed", i |-> 0]
      [] OTHER -> [st |-> c, i |-> 0]

\* the transitions of the summary from s to t; stepOk tells whether the
\* forward under the cursor succeeds, advanceWhen is the guard on
\* Forward(i) -> Forward(i+1)
MachineStep(s, t, stepOk, advanceWhen) ==
    \/ s.st = "idle" /\ t = [st |-> "Forward", i |-> 0]
    \/ /\ s.st = "Forward"
       /\ advanceWhen
       /\ stepOk
       /\ t = [st |-> "Forward", i |-> s.i + 1]
    \/ /\ s.st = "Forward"
       /\ s.i = len
       /\ t.st = "Succeeded"
    \/ /\ s.st = "Forward"
       /\ s.i < len
       /\ ~stepOk
       /\ t = [st |-> "Compensating", i |-> s.i]
    \/ /\ s.st = "Compensating"
       /\ s.i > 0
       /\ t = [st |-> "Compensating", i |-> s.i - 1]
    \/ /\ s.st = "Compensating"
       /\ s.i = 0
       /\ t.st = "Failed"

\* the forward of the step under the cursor succeeds on the accumulator
CursorStepOk == InBounds(i) /\ forward(adventures[i + 1], acc).ok

\* C10 as stated: every step of a run is one of the listed transitions,
\* Forward(i) -> Forward(i+1) being taken on success only when i + 1 < n.
C10_AsStated ==
    [][MachineStep(MState(pc, i, result), MState(pc', i', result'),
                   CursorStepOk, i + 1 < len)]_vars

\* C10 (amended): every step of a run is one of the transitions
\* Forward(i) -> Forward(i+1) on step success when i < n, Forward(i) ->
\* Succeeded when i = n, Forward(i) -> Compensating(i) on step failure,
\* Compensating(i) -> Compensating(i-1) when i > 0, Compensating(0) ->
\* Failed; the run starts in Forward(0) and nothing leaves Succeeded or
\* Failed.
C10_StateMachine ==
    [][MachineStep(MState(pc, i, result), MState(pc', i', result'),
                   CursorStepOk, i < len)]_vars

\* the last step of a saga succeeded and the cursor stands at n
C10_Witness ==
    /\ pc = "tell_"
    /\ len >= 1
    /\ i = len
    /\ calls[Len(calls)].idx = len - 1
    /\ calls[Len(calls)].ret.ok

\* C11: the forward cursor is the number of forwards that succeeded so far,
\* so it rises by one per successful step; the forwards invoked are those of
\* steps 0, 1, 2, ... in that order, none twice, and at most n of them are
\* invoked before the run succeeds or turns to compensation.
C11_ForwardMonotonic ==
    /\ Idx(FwdCalls) = Up(Len(FwdCalls) - 1)
    /\ Len(FwdCalls) <= len
    /\ \A p \in 1..(Len(FwdCalls) - 1) : calls[p].ret.ok
    /\ pc = "tell_" =>
          /\ calls = FwdCalls
          /\ FailPos = {}
          /\ i = Len(FwdCalls)
    /\ pc = "revert" => ~calls[Len(FwdCalls)].ret.ok
    /\ Succeeded => Len(FwdCalls) = len

\* the cursor stands behind the last step of a saga of three or more steps
C11_Witness ==
    /\ pc = "tell_"
    /\ len >= 3
    /\ i = len
    /\ Idx(FwdCalls) = Up(len - 1)

\* C12: once a forward has failed no forward is invoked again in the run,
\* that of the failing step included; every forward invocation of a run
\* comes before every backward invocation of it.
C12_NoRetry ==
    /\ \A p \in FailPos :
          \A q \in (p + 1)..Len(calls) : calls[q].op = "backward"
    /\ \A p \in 1..Len(calls) :
          calls[p].op = "backward" =>
              \A q \in p..Len(calls) : calls[q].op = "backward"
    /\ Cardinality(FailPos) <= 1
    /\ BwdCalls # <<>> => FailPos # {}
    /\ pc = "tell_" => FailPos = {}

\* a run that failed at its second step and went on to its second backward
C12_Witness ==
    /\ FailPos = {2}
    /\ Len(BwdCalls) = 2
    /\ Len(FwdCalls) = 2
    /\ len = 3

\* C13: every tell reaches Succeeded or Failed: a run in Forward(i) or
\* Compensating(i) always has its next step to take, and takes at most 2n
\* step invocations in all, n when it succeeds and 2(k+1) when step k fails.
C13_RunToCompletion ==
    /\ [](pc \in {"tell_", "revert"} => ENABLED (tell_ \/ revert))
    /\ [](Len(calls) <= 2 * len)
    /\ [](Succeeded => Len(calls) = len)
    /\ [](Failed => \A p \in FailPos : Len(calls) = 2 * (calls[p].idx + 1))
    /\ (pc \in {"tell_", "revert"} ~> pc = "done")

\* a saga of three steps that failed at its last step after 2n invocations
C13_Witness ==
    /\ Failed
    /\ len = 3
    /\ Len(calls) = 6

\* C14: when the failing step is step 0, compensation is the single call of
\* step 0's backward on the accumulator its failure carried; the run then
\* ends in Failed with that call's value, no other backward and no forward
\* of a later step having been invoked.
C14_FailureAtZero ==
    \A p \in FailPos :
        calls[p].idx = 0 =>
            /\ p = 1
            /\ Len(calls) <= 2
            /\ Len(calls) = 1 => (pc = "revert" /\ i = 0)
            /\ Len(calls) = 2 =>
                  /\ calls[2] = Call("backward", 0, calls[1].ret.acc,
                                     Ok(backward(adventures[1], calls[1].ret.acc)))
                  /\ pc = "done"
                  /\ result = Failure(calls[1].ret.error, calls[2].ret.acc)

\* a saga of several steps failed at step 0 and returned after one backward
C14_Witness ==
    /\ Failed
    /\ len >= 2
    /\ Len(calls) = 2
    /\ calls[1].idx = 0
    /\ ~calls[1].ret.ok
    /\ calls[2].op = "backward"

\* C15: wherever tell_ or revert selects a step the index satisfies
\* 0 <= i < n: revert is only entered with i < n, the cursor of tell_ never
\* exceeds n, the index never goes below 0, and no out-of-bounds access
\* (a panic) occurs, the empty saga included.
C15_IndexSafety ==
    /\ pc # "panic"
    /\ i >= 0
    /\ pc = "tell_" => i <= len
    /\ pc = "revert" => InBounds(i)
    /\ \A p \in 1..Len(calls) : InBounds(calls[p].idx)
    /\ len = 0 => (pc # "revert" /\ calls = <<>>)

\* revert stands at index 0 after having stepped down from the last index
C15_Witness ==
    /\ pc = "revert"
    /\ i = 0
    /\ len = 3
    /\ Len(BwdCalls) = 2

\* C16: no tell, succeeded or failed, changes the saga's list of steps; a
\* tell with the same initial accumulator as an earlier tell on the saga
\* returns the same result after the same sequence of step invocations,
\* whatever was told in between.
C16_SagaReusable ==
    /\ [][adventures' = adventures]_vars
    /\ []((pc = "done" /\ prev.valid /\ prev.input = initial) =>
            (result = prev.result /\ calls = prev.calls))

\* a saga that failed and was rolled back is told the same value again and
\* fails the same way
C16_Witness ==
    /\ Failed
    /\ len >= 2
    /\ prev.valid
    /\ prev.input = initial
    /\ ~prev.result.ok
    /\ Len(calls) >= 4
    /\ calls = prev.calls
====
